---- MODULE Spec2Model ----
(***************************************************************************)
(* Iris classification service (src/src/api/app.py): the startup           *)
(* load-or-train step, the process-wide model slot and the request         *)
(* handlers that read it.                                                  *)
(*                                                                         *)
(* Measurements are modelled as whole centimetres, probabilities as whole  *)
(* percents (a distribution sums to 100).                                  *)
(***************************************************************************)
EXTENDS Integers, Sequences, FiniteSets, TLC

VARIABLES
    model,       \* the global model slot (app.py:78)
    files,       \* the filesystem: what each candidate model path holds
    pc,          \* position of load_model (app.py:88-128)
    idx,         \* index of the candidate the loop of load_model is at
    iris_model,  \* the local iris_model of load_model (app.py:114)
    req,         \* the request being answered
    seen,        \* the value the model slot had when its handler ran
    resp,        \* the response to it
    calls,       \* the model calls made while answering it, in order
    pipe         \* the offline pipeline: dataset, split, classifier, model file

vars == <<model, files, pc, idx, iris_model, req, seen, resp, calls, pipe>>

(***************************************************************************)
(* Bounds of the model.                                                    *)
(***************************************************************************)
\* Batches of up to this length are enumerated sample by sample.
MaxSmallBatch == 2
\* The shuffles of a split turn the rows by up to this many places.
MaxShift == 2

(***************************************************************************)
(* Program constants.                                                      *)
(***************************************************************************)
\* Field(..., ge=0, le=10)
FieldMin == 0
FieldMax == 10
\* if len(batch.samples) > 100
BatchLimit == 100

None == "None"

feature_names ==
    << "sepal length (cm)", "sepal width (cm)",
       "petal length (cm)", "petal width (cm)" >>

target_names == << "setosa", "versicolor", "virginica" >>

model_paths ==
    << "models/iris_model.joblib", "/app/models/iris_model.joblib",
       "iris_model.joblib" >>

SavePath == "models/iris_model.joblib"

PathSet == { model_paths[i] : i \in 1..Len(model_paths) }

(***************************************************************************)
(* Model artifacts.  A classifier is opaque to the service: it answers     *)
(* predict and predict_proba, or raises.  Three fitted classifiers and     *)
(* the unfitted one that IrisModel() constructs.                           *)
(***************************************************************************)
Unfitted == "rf_unfitted"
Artifacts == { "rf", "alt", "flaky" }

Fitted(m) == m \in Artifacts

\* What a path can hold: nothing, bytes that do not deserialize, an artifact.
Missing == "missing"
Corrupt == "corrupt"
FileContents == { Missing, Corrupt } \cup Artifacts

\* model.predict(feature_array) raises
PredictRaises(m, x) ==
    \/ m = Unfitted
    \/ m = "flaky" /\ x[1] = 0

\* int(model.predict(feature_array)[0])
ModelPredict(m, x) ==
    IF m = "alt"
    THEN (IF x[4] < 1 THEN 0 ELSE IF x[4] < 2 THEN 1 ELSE 2)
    ELSE (IF x[3] < 3 THEN 0 ELSE IF x[3] < 5 THEN 1 ELSE 2)

\* model.predict_proba(feature_array) raises
ProbaRaises(m, x) ==
    \/ m = Unfitted
    \/ m = "flaky" /\ x[2] = 0

\* model.predict_proba(feature_array)[0], in percent
ModelPredictProba(m, x) ==
    IF m = "alt"
    THEN << 34, 33, 33 >>
    ELSE (IF x[3] < 3 THEN << 90, 10, 0 >>
          ELSE IF x[3] < 5 THEN << 5, 80, 15 >>
          ELSE << 0, 30, 70 >>)

(***************************************************************************)
(* Request bodies.                                                         *)
(***************************************************************************)
\* <<sepal_length, sepal_width, petal_length, petal_width>>
ValidSamples ==
    { << 5, 3, 1, 0 >>, << 7, 3, 4, 1 >>, << 6, 3, 6, 2 >>,
      << 0, 3, 1, 0 >>, << 5, 0, 4, 1 >>,
      << 0, 0, 0, 0 >>, << 10, 10, 10, 10 >> }

InvalidSamples ==
    { << 15, 3, 1, 0 >>, << 5, -1, 1, 0 >>, << 5, 3, 11, 0 >>, << 5, 3, 1, 11 >> }

Samples == ValidSamples \cup InvalidSamples

\* The samples that short batches are built from.
SmallPool == { << 5, 3, 1, 0 >>, << 7, 3, 4, 1 >>, << 0, 3, 1, 0 >>, << 15, 3, 1, 0 >> }

SmallBatches == UNION { [1..n -> SmallPool] : n \in 0..MaxSmallBatch }

Cycle == << << 5, 3, 1, 0 >>, << 7, 3, 4, 1 >>, << 6, 3, 6, 2 >> >>

\* A long batch of n samples, the one at position bad (if any) out of range.
BigBatch(n, bad) ==
    [ i \in 1..n |-> IF i = bad THEN << 5, 3, 11, 0 >> ELSE Cycle[((i - 1) % 3) + 1] ]

BigBatches ==
    { BigBatch(n, bad) : n \in { BatchLimit, BatchLimit + 1 }, bad \in { 0, BatchLimit } }

Batches == SmallBatches \cup BigBatches

(***************************************************************************)
(* Request validation: the pydantic models of the request bodies.          *)
(***************************************************************************)
InRange(v) == FieldMin <= v /\ v <= FieldMax

\* class IrisFeatures
IrisFeatures(s) == \A k \in 1..4 : InRange(s[k])

\* class BatchIrisFeatures: samples: List[IrisFeatures]
BatchIrisFeatures(b) == \A i \in 1..Len(b) : IrisFeatures(b[i])

(***************************************************************************)
(* Responses.                                                              *)
(***************************************************************************)
NoBody == << >>

\* raise HTTPException(status_code=..., detail=...)
HTTPException(status_code, detail) ==
    [ status |-> status_code, detail |-> detail, body |-> NoBody ]

\* A returned value, sent as 200.
Ok(body) == [ status |-> 200, detail |-> << >>, body |-> << body >> ]

\* The framework's answer to a body that fails the request model.
RequestValidationError ==
    [ status |-> 422, detail |-> << "value is not in range" >>, body |-> NoBody ]

\* max(probabilities)
RECURSIVE MaxOf(_)
MaxOf(s) ==
    IF Len(s) = 1 THEN s[1]
    ELSE LET m == MaxOf(Tail(s)) IN IF s[1] >= m THEN s[1] ELSE m

MinLen(s, t) == IF Len(s) <= Len(t) THEN Len(s) ELSE Len(t)

\* {name: float(prob) for name, prob in zip(target_names, probabilities)},
\* in insertion order
Zip(names, probs) == [ i \in 1..MinLen(names, probs) |-> << names[i], probs[i] >> ]

PredictCall(x) == << "predict", x >>
ProbaCall(x) == << "predict_proba", x >>

(***************************************************************************)
(* Handlers.  Each yields the response and the model calls it made.        *)
(***************************************************************************)
Answer(r, cs) == [ resp |-> r, calls |-> cs ]

\* A health check that always answers healthy.
health_check_Always(m) ==
    Answer(Ok([ status |-> "healthy", model_loaded |-> (m # None),
                timestamp |-> "2024-01-01T00:00:00Z" ]), << >>)

\* health_check
health_check(m) ==
    IF m = None
    THEN Answer(HTTPException(503, << "Model not loaded" >>), << >>)
    ELSE Answer(Ok([ status |-> "healthy", model_loaded |-> (m # None),
                     timestamp |-> "2024-01-01T00:00:00Z" ]), << >>)

\* A confidence that is the first class's probability.
Confidence_First(probabilities) == probabilities[1]

\* The confidence of a prediction: float(max(probabilities))
Confidence(probabilities) == MaxOf(probabilities)

\* The body of predict's try block, once model.predict has returned.
PredictionOf(m, x) ==
    LET prediction_id == ModelPredict(m, x)
        probabilities == ModelPredictProba(m, x)
    IN  [ prediction    |-> target_names[prediction_id + 1],
          prediction_id |-> prediction_id,
          confidence    |-> Confidence(probabilities),
          probabilities |-> Zip(target_names, probabilities) ]

\* predict
predict(m, features) ==
    IF m = None
    THEN Answer(HTTPException(503, << "Model not loaded" >>), << >>)
    ELSE IF PredictRaises(m, features)
    THEN Answer(HTTPException(500, << "Prediction failed: ", "predict raised" >>),
                << PredictCall(features) >>)
    ELSE IF ModelPredict(m, features) + 1 \notin DOMAIN target_names
    THEN Answer(HTTPException(500, << "Prediction failed: ", "list index out of range" >>),
                << PredictCall(features) >>)
    ELSE IF ProbaRaises(m, features)
    THEN Answer(HTTPException(500, << "Prediction failed: ", "predict_proba raised" >>),
                << PredictCall(features), ProbaCall(features) >>)
    ELSE Answer(Ok(PredictionOf(m, features)),
                << PredictCall(features), ProbaCall(features) >>)

\* A loop that puts each prediction in front of the earlier ones.
Collect_Prepend(predictions, p) == << p >> \o predictions

\* predictions.append(...)
Collect(predictions, p) == Append(predictions, p)

\* One sample of the loop of predict_batch: the PredictionResponse it appends.
BatchItem(m, sample) ==
    LET prediction_id == ModelPredict(m, sample)
        probabilities == ModelPredictProba(m, sample)
    IN  [ prediction    |-> target_names[prediction_id + 1],
          prediction_id |-> prediction_id,
          confidence    |-> MaxOf(probabilities),
          probabilities |-> Zip(target_names, probabilities) ]

\* The state of the loop of predict_batch: the predictions so far, the model
\* calls so far, and the exception that ended it (if one did).
LoopStart == [ raised |-> << >>, predictions |-> << >>, calls |-> << >> ]

\* An iteration that catches a failing sample's exception and goes on.
BatchStep_Swallow(m, st, sample) ==
    IF PredictRaises(m, sample)
    THEN [ st EXCEPT !.calls = Append(@, PredictCall(sample)) ]
    ELSE IF ProbaRaises(m, sample)
    THEN [ st EXCEPT !.calls = @ \o << PredictCall(sample), ProbaCall(sample) >> ]
    ELSE [ st EXCEPT !.predictions = Collect(@, BatchItem(m, sample)),
                     !.calls = @ \o << PredictCall(sample), ProbaCall(sample) >> ]

\* for sample in batch.samples: one iteration
BatchStep(m, st, sample) ==
    IF PredictRaises(m, sample)
    THEN [ st EXCEPT !.raised = << "predict raised" >>,
                     !.calls = Append(@, PredictCall(sample)) ]
    ELSE IF ModelPredict(m, sample) + 1 \notin DOMAIN target_names
    THEN [ st EXCEPT !.raised = << "list index out of range" >>,
                     !.calls = Append(@, PredictCall(sample)) ]
    ELSE IF ProbaRaises(m, sample)
    THEN [ st EXCEPT !.raised = << "predict_proba raised" >>,
                     !.calls = @ \o << PredictCall(sample), ProbaCall(sample) >> ]
    ELSE [ st EXCEPT !.predictions = Collect(@, BatchItem(m, sample)),
                     !.calls = @ \o << PredictCall(sample), ProbaCall(sample) >> ]

\* for sample in batch.samples: the iterations for samples lo..hi, in order,
\* from loop state st (those for the first half of lo..hi, then those for the
\* second half); an exception leaves the loop
RECURSIVE BatchRange(_, _, _, _, _)
BatchRange(m, st, samples, lo, hi) ==
    IF st.raised # << >> \/ lo > hi THEN st
    ELSE IF lo = hi THEN BatchStep(m, st, samples[lo])
    ELSE BatchRange(m, BatchRange(m, st, samples, lo, (lo + hi) \div 2),
                    samples, ((lo + hi) \div 2) + 1, hi)

\* for sample in batch.samples: the whole loop
BatchLoop(m, samples) == BatchRange(m, LoopStart, samples, 1, Len(samples))

\* A size check that is off by one.
TooLarge_OffByOne(samples) == Len(samples) >= BatchLimit

\* len(batch.samples) > 100
TooLarge(samples) == Len(samples) > BatchLimit

\* A predict_batch that checks the size before the model slot.
predict_batch_SizeFirst(m, samples) ==
    IF TooLarge(samples)
    THEN Answer(HTTPException(400, << "Batch size cannot exceed 100 samples" >>), << >>)
    ELSE IF m = None
    THEN Answer(HTTPException(503, << "Model not loaded" >>), << >>)
    ELSE LET st == BatchLoop(m, samples) IN
         IF st.raised # << >>
         THEN Answer(HTTPException(500, << "Batch prediction failed: " >> \o st.raised),
                     st.calls)
         ELSE Answer(Ok([ predictions |-> st.predictions,
                          batch_size  |-> Len(st.predictions) ]), st.calls)

\* predict_batch
predict_batch(m, samples) ==
    IF m = None
    THEN Answer(HTTPException(503, << "Model not loaded" >>), << >>)
    ELSE IF TooLarge(samples)
    THEN Answer(HTTPException(400, << "Batch size cannot exceed 100 samples" >>), << >>)
    ELSE LET st == BatchLoop(m, samples) IN
         IF st.raised # << >>
         THEN Answer(HTTPException(500, << "Batch prediction failed: " >> \o st.raised),
                     st.calls)
         ELSE Answer(Ok([ predictions |-> st.predictions,
                          batch_size  |-> Len(st.predictions) ]), st.calls)

\* A model_info that describes the classifier in the slot.
model_info_FromModel(m) ==
    IF m = None
    THEN Answer(HTTPException(503, << "Model not loaded" >>), << >>)
    ELSE Answer(Ok([ model_type     |-> m,
                     features       |-> feature_names,
                     target_classes |-> target_names,
                     n_features     |-> Len(feature_names),
                     n_classes      |-> Len(target_names) ]), << >>)

\* A model_info without the check of the model slot.
model_info_Unchecked(m) ==
    Answer(Ok([ model_type     |-> "RandomForestClassifier",
                features       |-> feature_names,
                target_classes |-> target_names,
                n_features     |-> Len(feature_names),
                n_classes      |-> Len(target_names) ]), << >>)

\* model_info
model_info(m) ==
    IF m = None
    THEN Answer(HTTPException(503, << "Model not loaded" >>), << >>)
    ELSE Answer(Ok([ model_type     |-> "RandomForestClassifier",
                     features       |-> feature_names,
                     target_classes |-> target_names,
                     n_features     |-> Len(feature_names),
                     n_classes      |-> Len(target_names) ]), << >>)

\* The JSON description of the API that root and api_info return.
ApiDescription ==
    [ message |-> "Iris Classification API", version |-> "1.0.0",
      endpoints |-> << "predict", "predict_batch", "health", "docs" >> ]

\* root: the static page if there is one, else the description
root(static) ==
    IF static THEN Answer(Ok([ file |-> "static/index.html" ]), << >>)
    ELSE Answer(Ok(ApiDescription), << >>)

\* api_info
api_info == Answer(Ok(ApiDescription), << >>)

\* The value a handler returned, when the response is a 200.
Body(r) == r.body[1]

\* POST /predict: the body is validated as IrisFeatures before predict runs.
RoutePredict(m, body) ==
    IF IrisFeatures(body) THEN predict(m, body)
    ELSE Answer(RequestValidationError, << >>)

\* A route that hands the body to predict_batch without validating it, the
\* loop rejecting a sample when it reaches it.
RoutePredictBatch_Lazy(m, body) ==
    IF m # None /\ ~TooLarge(body) /\ ~BatchIrisFeatures(body)
    THEN LET bad == CHOOSE i \in 1..Len(body) :
                        /\ ~IrisFeatures(body[i])
                        /\ \A j \in 1..(i - 1) : IrisFeatures(body[j])
             st == BatchLoop(m, SubSeq(body, 1, bad - 1))
         IN  Answer(RequestValidationError, st.calls)
    ELSE predict_batch(m, body)

\* POST /predict/batch: the body is validated as BatchIrisFeatures before
\* predict_batch runs.
RoutePredictBatch(m, body) ==
    IF BatchIrisFeatures(body) THEN predict_batch(m, body)
    ELSE Answer(RequestValidationError, << >>)

(***************************************************************************)
(* The offline pipeline (src/src/data/data_loader.py, IrisModel): the       *)
(* dataset, its stratified split, and a classifier saved to and loaded     *)
(* from a file.  A test fraction is a whole percent.                       *)
(***************************************************************************)
Classes == 0..2

\* Labels in blocks, class by class: counts[k + 1] rows of class k.
Blocks(counts) ==
    [ i \in 1..(counts[1] + counts[2] + counts[3]) |->
        IF i <= counts[1] THEN 0 ELSE IF i <= counts[1] + counts[2] THEN 1 ELSE 2 ]

\* Labels in turn: row i is of class (i - 1) mod 3.
InTurn(n) == [ i \in 1..n |-> (i - 1) % 3 ]

\* iris.target: 150 rows, 50 of each class, class by class
IrisTarget == Blocks(<< 50, 50, 50 >>)

\* The label vectors that are split: the Iris one, 100-row ones, short ones.
Targets ==
    { IrisTarget, InTurn(100), Blocks(<< 50, 30, 20 >>), Blocks(<< 41, 36, 23 >>),
      Blocks(<< 7, 5, 3 >>), Blocks(<< 1, 2, 2 >>) }

\* test_size, in percent
TestSizes == { 20, 30 }

\* iris.data: the measurements of row i
IrisData(i) ==
    LET k == IrisTarget[i]
    IN  << 4 + (i % 4), 2 + (i % 3), 1 + (2 * k) + (i % 2), k + ((i \div 2) % 2) >>

Rows(y) == 1..Len(y)

\* np.bincount(y)
ClassCounts(y) == [ k \in Classes |-> Cardinality({ i \in Rows(y) : y[i] = k }) ]

Total(counts) == counts[0] + counts[1] + counts[2]

\* ceil(test_size * n_samples)
NTest(n, test_size) == ((test_size * n) + 99) \div 100

\* The allocations of n_draws rows to the classes in proportion to counts:
\* the floor of each share, the rows left over going to the classes with the
\* largest remainders, ties in any way.
ApproximateMode(counts, n_draws) ==
    LET total == Total(counts)
        floored == [ k \in Classes |-> (counts[k] * n_draws) \div total ]
        remainder == [ k \in Classes |-> (counts[k] * n_draws) % total ]
        need_to_add == n_draws - Total(floored)
        choices == { A \in SUBSET Classes :
                        /\ Cardinality(A) = need_to_add
                        /\ \A a \in A : \A b \in Classes \ A :
                              remainder[a] >= remainder[b] }
    IN  { [ k \in Classes |-> floored[k] + (IF k \in A THEN 1 ELSE 0) ] : A \in choices }

\* rng.permutation: the sequence s, turned by shift places
Permutation(s, shift) ==
    [ j \in 1..Len(s) |-> s[((j - 1 + shift) % Len(s)) + 1] ]

\* The rows of class k, in order
ClassRows(y, k) == SelectSeq([ i \in 1..Len(y) |-> i ], LAMBDA i : y[i] = k)

Taken(s, from, to) == { s[j] : j \in from..to }

NoSplit == [ state |-> "none", train |-> {}, test |-> {} ]

\* raise ValueError
SplitRaised == [ state |-> "raised", train |-> {}, test |-> {} ]

\* StratifiedShuffleSplit: the splits it can return
StratifiedSplits(y, n_train, n_test, shift) ==
    LET counts == ClassCounts(y)
        perm == [ k \in Classes |-> Permutation(ClassRows(y, k), shift) ]
        Drawn(n_i, t_i) ==
            [ state |-> "done",
              train |-> UNION { Taken(perm[k], 1, n_i[k]) : k \in Classes },
              test  |-> UNION { Taken(perm[k], n_i[k] + 1, n_i[k] + t_i[k]) :
                                  k \in Classes } ]
    IN  IF \E k \in Classes : counts[k] < 2 THEN { SplitRaised }
        ELSE IF n_train < Cardinality(Classes) \/ n_test < Cardinality(Classes)
        THEN { SplitRaised }
        ELSE UNION { { Drawn(n_i, t_i) :
                         t_i \in ApproximateMode([ k \in Classes |-> counts[k] - n_i[k] ],
                                                 n_test) } :
                     n_i \in ApproximateMode(counts, n_train) }

\* ShuffleSplit: the split it returns
ShuffledSplits(y, n_train, n_test, shift) ==
    LET permutation == Permutation([ i \in 1..Len(y) |-> i ], shift)
    IN  { [ state |-> "done",
            train |-> Taken(permutation, n_test + 1, n_test + n_train),
            test  |-> Taken(permutation, 1, n_test) ] }

\* train_test_split(X, y, test_size=..., random_state=..., stratify=...)
train_test_split(y, test_size, shift, stratify) ==
    LET n_test == NTest(Len(y), test_size)
        n_train == Len(y) - n_test
    IN  IF stratify THEN StratifiedSplits(y, n_train, n_test, shift)
        ELSE ShuffledSplits(y, n_train, n_test, shift)

\* A split_data that does not pass stratify=y.
split_data_Unstratified(y, test_size, shift) ==
    train_test_split(y, test_size, shift, FALSE)

\* DataLoader.split_data
split_data(y, test_size, shift) == train_test_split(y, test_size, shift, TRUE)

\* The fitted classifiers: <<feature, lower threshold, upper threshold>>
Classifiers == { << f, lo, hi >> : f \in { 3, 4 }, lo \in 1..2, hi \in 3..5 }

NoClassifier == << >>

\* IrisModel.predict, for one row
Classify(clf, x) ==
    IF x[clf[1]] < clf[2] THEN 0 ELSE IF x[clf[1]] < clf[3] THEN 1 ELSE 2

NoFile == << >>

\* joblib.dump: the bytes of the file, a header and then the classifier's fields
Dump(clf) == << "joblib", Len(clf) >> \o clf

\* A load that reads the thresholds in the wrong order.
Load_Swapped(bytes) == << bytes[3], bytes[5], bytes[4] >>

\* joblib.load: the classifier the bytes hold
Load(bytes) == SubSeq(bytes, 3, 2 + bytes[2])

IdlePipe ==
    [ y |-> << >>, test_size |-> 0, split |-> NoSplit,
      clf |-> NoClassifier, file |-> NoFile, loaded |-> NoClassifier ]

(***************************************************************************)
(* Startup: load_model, step by step.                                      *)
(***************************************************************************)
\* Path(model_path).exists()
Exists(fs, p) == fs[p] # Missing

\* joblib.load(model_path) returns (it raises on bytes that do not deserialize)
Loads(fs, p) == fs[p] \in Artifacts

\* A loop that gives up at the first candidate that does not load.
NextCandidate_Break(i) == Len(model_paths) + 1

\* `continue`: the candidate the loop goes to after candidate i
NextCandidate(i) == i + 1

\* A loop that goes on to the next candidate after one has loaded.
AfterLoad_NoReturn(i) == [ pc |-> "loop", idx |-> i + 1 ]

\* Where load_model goes after a candidate has loaded: `return`
AfterLoad(i) == [ pc |-> "done", idx |-> i ]

\* IrisModel(): holds a classifier that is not yet fitted
NewIrisModel == Unfitted

\* iris_model.train(X, y): the classifier, fitted
Train(clf) == "rf"

\* iris_model.save_model(path): the filesystem with the classifier at path
SaveModel(fs, p, clf) == [ fs EXCEPT ![p] = clf ]

\* raise RuntimeError("Could not load or train model")
Fatal ==
    /\ pc' = "failed"
    /\ UNCHANGED << model, files, idx, req, seen, resp, calls, pipe >>

\* for model_path in model_paths: one candidate
TryCandidate ==
    /\ pc = "loop"
    /\ idx <= Len(model_paths)
    /\ LET model_path == model_paths[idx] IN
       IF Exists(files, model_path) /\ Loads(files, model_path)
       THEN /\ model' = files[model_path]
            /\ pc' = AfterLoad(idx).pc
            /\ idx' = AfterLoad(idx).idx
       ELSE /\ idx' = NextCandidate(idx)
            /\ UNCHANGED << model, pc >>
    /\ UNCHANGED << files, iris_model, req, seen, resp, calls, pipe >>

\* The loop ran out of candidates: "No pre-trained model found."
NoCandidate ==
    /\ pc = "loop"
    /\ idx > Len(model_paths)
    /\ pc' = "construct"
    /\ UNCHANGED << model, files, idx, iris_model, req, seen, resp, calls, pipe >>

\* A load_model that puts the classifier in the slot as soon as it is built.
Construct_PublishEarly ==
    /\ pc = "construct"
    /\ iris_model' = NewIrisModel
    /\ model' = NewIrisModel
    /\ pc' = "fit"
    /\ UNCHANGED << files, idx, req, seen, resp, calls, pipe >>

\* from src.models.iris_model import IrisModel; iris_model = IrisModel()
Construct ==
    /\ pc = "construct"
    /\ \/ /\ iris_model' = NewIrisModel
          /\ pc' = "fit"
          /\ UNCHANGED << model, files, idx, req, seen, resp, calls, pipe >>
       \/ Fatal /\ UNCHANGED iris_model

\* data = iris_model.load_data(); ...; iris_model.train(X, y)
Fit ==
    /\ pc = "fit"
    /\ \/ /\ iris_model' = Train(iris_model)
          /\ pc' = "makedirs"
          /\ UNCHANGED << model, files, idx, req, seen, resp, calls, pipe >>
       \/ Fatal /\ UNCHANGED iris_model

\* os.makedirs("models", exist_ok=True)
MakeDirs ==
    /\ pc = "makedirs"
    /\ \/ /\ pc' = "save"
          /\ UNCHANGED << model, files, idx, iris_model, req, seen, resp, calls, pipe >>
       \/ Fatal /\ UNCHANGED iris_model

\* iris_model.save_model("models/iris_model.joblib")
Save ==
    /\ pc = "save"
    /\ \/ /\ files' = SaveModel(files, SavePath, iris_model)
          /\ pc' = "publish"
          /\ UNCHANGED << model, idx, iris_model, req, seen, resp, calls, pipe >>
       \/ Fatal /\ UNCHANGED iris_model

\* model = iris_model.model
Publish ==
    /\ pc = "publish"
    /\ model' = iris_model
    /\ pc' = "done"
    /\ UNCHANGED << files, idx, iris_model, req, seen, resp, calls, pipe >>

(***************************************************************************)
(* Requests.  A handler runs to completion once it has started; requests   *)
(* are answered while the process lives.                                   *)
(***************************************************************************)
Request(op, samples) == [ op |-> op, samples |-> samples ]

Serve(op, samples, answer) ==
    /\ pc # "failed"
    /\ req' = Request(op, samples)
    /\ seen' = model
    /\ resp' = answer.resp
    /\ calls' = answer.calls
    /\ UNCHANGED << model, files, pc, idx, iris_model, pipe >>

GetRoot == \E static \in BOOLEAN : Serve("root", << >>, root(static))

GetApi == Serve("api_info", << >>, api_info)

GetHealth == Serve("health", << >>, health_check(model))

PostPredict ==
    \E features \in Samples :
        Serve("predict", << features >>, RoutePredict(model, features))

PostPredictBatch ==
    \E samples \in Batches :
        Serve("predict_batch", samples, RoutePredictBatch(model, samples))

GetModelInfo == Serve("model_info", << >>, model_info(model))

Init ==
    /\ model = None
    /\ files \in [PathSet -> FileContents]
    /\ pc = "loop"
    /\ idx = 1
    /\ iris_model = None
    /\ req = Request("none", << >>)
    /\ seen = None
    /\ resp = [ status |-> 0, detail |-> << >>, body |-> NoBody ]
    /\ calls = << >>
    /\ pipe = IdlePipe

Next ==
    \/ TryCandidate
    \/ NoCandidate
    \/ Construct
    \/ Fit
    \/ MakeDirs
    \/ Save
    \/ Publish
    \/ GetRoot
    \/ GetApi
    \/ GetHealth
    \/ PostPredict
    \/ PostPredictBatch
    \/ GetModelInfo

Spec == Init /\ [][Next]_vars

(***************************************************************************)
(* The pipeline on its own: the service is not started.                    *)
(***************************************************************************)
ServiceIdle == UNCHANGED << model, files, pc, idx, iris_model, req, seen, resp, calls >>

\* loader.split_data(X, y, test_size=...)
SplitData ==
    /\ \E shift \in 0..MaxShift :
          \E result \in split_data(pipe.y, pipe.test_size, shift) :
              pipe' = [ pipe EXCEPT !.split = result ]
    /\ ServiceIdle

\* model.train(X, y), on the whole dataset
TrainModel ==
    /\ Len(pipe.y) = Len(IrisTarget)
    /\ \E clf \in Classifiers :
          pipe' = [ pipe EXCEPT !.clf = clf, !.file = NoFile, !.loaded = NoClassifier ]
    /\ ServiceIdle

\* model.save_model(model_path)
SaveToFile ==
    /\ pipe.clf # NoClassifier
    /\ pipe' = [ pipe EXCEPT !.file = Dump(pipe.clf) ]
    /\ ServiceIdle

\* new_model = IrisModel(); new_model.load_model(model_path)
LoadFromFile ==
    /\ pipe.file # NoFile
    /\ pipe' = [ pipe EXCEPT !.loaded = Load(pipe.file) ]
    /\ ServiceIdle

PipelineInit ==
    /\ model = None
    /\ files = [ p \in PathSet |-> Missing ]
    /\ pc = "loop"
    /\ idx = 1
    /\ iris_model = None
    /\ req = Request("none", << >>)
    /\ seen = None
    /\ resp = [ status |-> 0, detail |-> << >>, body |-> NoBody ]
    /\ calls = << >>
    /\ \E y \in Targets, test_size \in TestSizes :
          pipe = [ IdlePipe EXCEPT !.y = y, !.test_size = test_size ]

PipelineNext ==
    \/ SplitData
    \/ TrainModel
    \/ SaveToFile
    \/ LoadFromFile

PipelineSpec == PipelineInit /\ [][PipelineNext]_vars

(***************************************************************************)
(* Properties.                                                             *)
(***************************************************************************)
ClassTable == << "setosa", "versicolor", "virginica" >>

\* A candidate path holds something that exists and deserializes.
Loadable(p) == files[p] \notin { "missing", "corrupt" }

NoneLoadable == \A j \in 1..3 : ~Loadable(model_paths[j])

OutOfRange(s) == \E k \in 1..4 : s[k] < 0 \/ s[k] > 10

AllInRange(samples) == \A i \in 1..Len(samples) : ~OutOfRange(samples[i])

\* Every model call the handler makes for these samples returns.
CallsSucceed(m, samples) ==
    \A i \in 1..Len(samples) :
        ~PredictRaises(m, samples[i]) /\ ~ProbaRaises(m, samples[i])

Readers == { "predict", "predict_batch", "model_info" }

\* C1: load_model tries the candidate paths in their fixed order and uses the
\* first one that exists and deserializes, skipping those that are missing or
\* do not deserialize; it trains only when no candidate loads, and then saves
\* the trained classifier to the model file before it uses it.
C1_LoadFirstElseTrain ==
    /\ pc = "loop" =>
          /\ model = None
          /\ \A j \in 1..(idx - 1) : ~Loadable(model_paths[j])
    /\ pc \in { "construct", "fit", "makedirs", "save" } =>
          model = None /\ NoneLoadable
    /\ pc = "publish" =>
          /\ model = None
          /\ iris_model = "rf"
          /\ files["models/iris_model.joblib"] = iris_model
          /\ \A j \in 2..3 : ~Loadable(model_paths[j])
    /\ pc = "done" /\ iris_model = None =>
          /\ idx \in 1..3
          /\ Loadable(model_paths[idx])
          /\ \A j \in 1..(idx - 1) : ~Loadable(model_paths[j])
          /\ model = files[model_paths[idx]]
    /\ pc = "done" /\ iris_model # None =>
          /\ model = iris_model
          /\ model = "rf"
          /\ files["models/iris_model.joblib"] = model
          /\ \A j \in 2..3 : ~Loadable(model_paths[j])

\* The second candidate is used because the first does not deserialize.
C1_Witness ==
    /\ pc = "done"
    /\ files[model_paths[1]] = "corrupt"
    /\ idx = 2
    /\ model = files[model_paths[2]]

\* C2: startup fails fatally only if loading fails for every candidate and
\* training fails too; once the classifier is trained, a failure of another
\* step (creating the directory, saving) does not keep startup from ending
\* with a model loaded.
C2_FatalOnlyIfTrainingFails ==
    pc = "failed" => NoneLoadable /\ iris_model \notin Artifacts

\* C3: the model slot holds nothing or a completely loaded or trained
\* classifier, in every state of every interleaving of startup and requests,
\* and so does every value a handler has read from it.
C3_SlotAbsentOrComplete ==
    /\ model = None \/ model \in { "rf", "alt", "flaky" }
    /\ seen = None \/ seen \in { "rf", "alt", "flaky" }

\* A request is answered while startup holds a trained, unpublished classifier.
C3_Witness ==
    /\ pc = "save"
    /\ iris_model = "rf"
    /\ model = None
    /\ req.op = "predict"
    /\ resp.status = 503

\* C4: the model slot is written at most once, by a step of load_model, and a
\* step that answers a request changes neither the slot nor any other state of
\* the process, whatever the answer.
C4_SlotWrittenOnceServingReadsOnly ==
    [][ /\ model' # model =>
              /\ model = None
              /\ pc \in { "loop", "publish" }
              /\ UNCHANGED << req, seen, calls >>
        /\ (req' # req \/ seen' # seen \/ calls' # calls \/ resp'.status # resp.status) =>
              UNCHANGED << model, files, pc, idx, iris_model >>
      ]_vars

\* A request has failed with a 500 against a loaded model.
C4_Witness ==
    /\ model # None
    /\ seen = model
    /\ req.op = "predict_batch"
    /\ resp.status = 500

\* C5: a predict or predict_batch request with a sample that has a field
\* outside [0,10] fails with a validation error and makes no model call, not
\* even for in-range samples that come before the bad one.
C5_ValidateBeforeInference ==
    (req.op \in { "predict", "predict_batch" } /\ ~AllInRange(req.samples)) =>
        /\ resp.status = 422
        /\ resp.body = << >>
        /\ calls = << >>

\* A batch of 100 whose last sample is out of range, sent to a loaded model.
C5_Witness ==
    /\ req.op = "predict_batch"
    /\ seen # None
    /\ Len(req.samples) = 100
    /\ ~OutOfRange(req.samples[1])
    /\ OutOfRange(req.samples[100])
    /\ resp.status = 422

C7_BatchIsPredictPerSample ==
    ( /\ req.op = "predict_batch"
      /\ seen # None
      /\ Len(req.samples) <= 100
      /\ AllInRange(req.samples)
      /\ CallsSucceed(seen, req.samples) ) =>
        /\ resp.status = 200
        /\ Len(Body(resp).predictions) = Len(req.samples)
        /\ Body(resp).batch_size = Len(req.samples)
        /\ \A i \in 1..Len(req.samples) :
              LET single == predict(seen, req.samples[i]).resp
              IN  single.status = 200 /\ Body(resp).predictions[i] = Body(single)

\* 100 samples of differing classes have been answered in order.
C7_Witness ==
    /\ req.op = "predict_batch"
    /\ seen = "rf"
    /\ Len(req.samples) = 100
    /\ resp.status = 200
    /\ Body(resp).batch_size = 100
    /\ Body(resp).predictions[1].prediction = "setosa"
    /\ Body(resp).predictions[2].prediction = "versicolor"
    /\ Body(resp).predictions[100].prediction = "setosa"

\* C8: while no model is loaded, predict, predict_batch and model_info make no
\* model call and never answer 200; a request whose samples are in range is
\* answered 503.
C8_UnavailableWithoutModel ==
    (req.op \in Readers /\ seen = None) =>
        /\ calls = << >>
        /\ resp.status # 200
        /\ resp.body = << >>
        /\ AllInRange(req.samples) =>
              resp.status = 503 /\ resp.detail = << "Model not loaded" >>

\* An in-range batch is answered 503 before any model is loaded.
C8_Witness ==
    /\ req.op = "predict_batch"
    /\ seen = None
    /\ Len(req.samples) = 2
    /\ AllInRange(req.samples)
    /\ resp.status = 503

\* C9: health answers 200 exactly when a model is loaded: 503 and never 200
\* while the slot is empty, 200 with model_loaded = true once startup has
\* loaded or trained a model; it makes no model call and changes no state.
C9_HealthIffLoaded ==
    /\ [] ( /\ req.op = "health" =>
                 /\ calls = << >>
                 /\ seen = None => resp.status = 503 /\ resp.body = << >>
                 /\ seen # None =>
                       /\ resp.status = 200
                       /\ Body(resp).model_loaded = TRUE
                       /\ Body(resp).status = "healthy"
            /\ pc = "done" => model # None )
    /\ [][ (req'.op = "health" /\ (req' # req \/ seen' # seen \/ resp'.status # resp.status)) =>
               /\ seen' = model
               /\ UNCHANGED << model, files, pc, idx, iris_model >> ]_vars

\* health has answered 200 after startup trained a model, 503 having been
\* its answer before.
C9_Witness ==
    /\ req.op = "health"
    /\ pc = "done"
    /\ iris_model = "rf"
    /\ seen = "rf"
    /\ resp.status = 200

\* C10: for an in-range sample, with a model loaded and the model calls
\* returning, predict answers 200 with the class name at the predicted index
\* of the 3-class table, a confidence that is the maximum of the returned
\* distribution, and the distribution keyed by the three class names in table
\* order.
C10_PredictionResult ==
    ( /\ req.op = "predict"
      /\ seen # None
      /\ AllInRange(req.samples)
      /\ CallsSucceed(seen, req.samples) ) =>
        /\ resp.status = 200
        /\ LET r == Body(resp)
               x == req.samples[1]
           IN  /\ r.prediction_id = ModelPredict(seen, x)
               /\ r.prediction_id \in 0..2
               /\ r.prediction = ClassTable[r.prediction_id + 1]
               /\ Len(r.probabilities) = 3
               /\ \A c \in 1..3 :
                     /\ r.probabilities[c][1] = ClassTable[c]
                     /\ r.probabilities[c][2] = ModelPredictProba(seen, x)[c]
                     /\ r.confidence >= r.probabilities[c][2]
               /\ \E c \in 1..3 : r.confidence = r.probabilities[c][2]

\* A prediction whose most probable class is not the first of the table.
C10_Witness ==
    /\ req.op = "predict"
    /\ seen = "rf"
    /\ resp.status = 200
    /\ Body(resp).prediction = "virginica"
    /\ Body(resp).confidence = 70

\* The exception of the first model call that raises for sample x.
CauseOf(m, x) == IF PredictRaises(m, x) THEN "predict raised" ELSE "predict_proba raised"

\* The first sample for which a model call raises.
FirstFailing(m, samples) ==
    CHOOSE i \in 1..Len(samples) :
        /\ ~CallsSucceed(m, << samples[i] >>)
        /\ CallsSucceed(m, SubSeq(samples, 1, i - 1))

\* C11: when a model call raises while a prediction is computed, in predict or
\* for any sample of predict_batch, the answer is a 500 whose detail carries
\* the exception; it is never a 200 and never carries a result, not even the
\* predictions of the samples before the failing one.
C11_InferenceErrorSurfaces ==
    ( /\ req.op \in { "predict", "predict_batch" }
      /\ seen # None
      /\ Len(req.samples) <= 100
      /\ AllInRange(req.samples)
      /\ ~CallsSucceed(seen, req.samples) ) =>
        /\ resp.status = 500
        /\ resp.body = << >>
        /\ resp.detail =
              << (IF req.op = "predict" THEN "Prediction failed: "
                  ELSE "Batch prediction failed: "),
                 CauseOf(seen, req.samples[FirstFailing(seen, req.samples)]) >>

\* The second sample of a batch fails after the first has been predicted.
C11_Witness ==
    /\ req.op = "predict_batch"
    /\ seen = "flaky"
    /\ Len(req.samples) = 2
    /\ CallsSucceed(seen, << req.samples[1] >>)
    /\ ~CallsSucceed(seen, << req.samples[2] >>)
    /\ Len(calls) = 3
    /\ resp.status = 500

\* C12: the answer of model_info does not depend on the loaded classifier: it
\* is the same for any two loaded classifiers, and it lists the 4 feature
\* names and the 3 class names with n_features = 4 and n_classes = 3, the
\* lengths of those lists.
C12_ModelInfoStatic ==
    (req.op = "model_info" /\ seen # None) =>
        /\ resp.status = 200
        /\ \A other \in { "rf", "alt", "flaky" } : resp = model_info(other).resp
        /\ Body(resp).model_type = "RandomForestClassifier"
        /\ Body(resp).features =
              << "sepal length (cm)", "sepal width (cm)",
                 "petal length (cm)", "petal width (cm)" >>
        /\ Body(resp).target_classes = ClassTable
        /\ Body(resp).n_features = 4
        /\ Body(resp).n_features = Len(Body(resp).features)
        /\ Body(resp).n_classes = 3
        /\ Body(resp).n_classes = Len(Body(resp).target_classes)

\* model_info has answered with a classifier other than the trained one loaded.
C12_Witness ==
    /\ req.op = "model_info"
    /\ seen = "alt"
    /\ resp.status = 200

\* C15: predict_batch applies its checks in a fixed order: the range of every
\* sample, then the model slot, then the batch size, then inference.  So an
\* out-of-range sample is a validation error with or without a model, more
\* than 100 in-range samples without a model are answered 503 and not 400,
\* and the model is called only when all three checks have passed.
C15_BatchCheckOrder ==
    req.op = "predict_batch" =>
        IF ~AllInRange(req.samples)
        THEN resp.status = 422 /\ calls = << >>
        ELSE IF seen = None
        THEN resp.status = 503 /\ calls = << >>
        ELSE IF Len(req.samples) > 100
        THEN resp.status = 400 /\ calls = << >>
        ELSE /\ resp.status \in { 200, 500 }
             /\ Len(req.samples) > 0 => calls # << >>

\* 101 in-range samples, sent before any model is loaded, are answered 503.
C15_Witness ==
    /\ req.op = "predict_batch"
    /\ Len(req.samples) = 101
    /\ AllInRange(req.samples)
    /\ seen = None
    /\ resp.status = 503

Abs(v) == IF v < 0 THEN -v ELSE v

\* The rows of class k among the rows of part.
InClass(part, k) == Cardinality({ i \in part : pipe.y[i] = k })

\* C13: split_data partitions the n rows into a test set of the size that the
\* test fraction gives (rounded up) and a train set of the other rows (150
\* rows: 120/30 at 0.2 and 105/45 at 0.3; 100 rows: 80/20 at 0.2); every row
\* is in exactly one of the two, and in each of them every class is within
\* one row of its proportional share.
C13_StratifiedSplit ==
    pipe.split.state = "done" =>
        LET n == Len(pipe.y)
            train == pipe.split.train
            test == pipe.split.test
            n_train == Cardinality(train)
            n_test == Cardinality(test)
        IN  /\ n_test * 100 >= pipe.test_size * n
            /\ (n_test - 1) * 100 < pipe.test_size * n
            /\ n_train = n - n_test
            /\ (n = 150 /\ pipe.test_size = 20) => (n_train = 120 /\ n_test = 30)
            /\ (n = 150 /\ pipe.test_size = 30) => (n_train = 105 /\ n_test = 45)
            /\ (n = 100 /\ pipe.test_size = 20) => (n_train = 80 /\ n_test = 20)
            /\ train \cup test = 1..n
            /\ train \cap test = {}
            /\ \A k \in 0..2 :
                  LET c == Cardinality({ i \in 1..n : pipe.y[i] = k })
                  IN  /\ Abs((InClass(train, k) * n) - (c * n_train)) <= n
                      /\ Abs((InClass(test, k) * n) - (c * n_test)) <= n

\* 100 rows with classes of 41, 36 and 23 rows have been split at 0.3, where
\* no class's share is a whole number of rows.
C13_Witness ==
    /\ pipe.split.state = "done"
    /\ Len(pipe.y) = 100
    /\ pipe.test_size = 30
    /\ InClass(1..100, 0) = 41
    /\ InClass(pipe.split.train, 0) = 29
    /\ Cardinality(pipe.split.test) = 30

====
